---- MODULE Spec2Model ----
(***************************************************************************)
(* Orbital rich-text editor: the Quill Delta <-> markdown converters       *)
(* (deltaToMarkdown, markdownToDelta), the editor API handed to the        *)
(* composer (insertText, insertEmoji), the text-change listeners and the   *)
(* composer's emoji selection handler.                                     *)
(*                                                                         *)
(* A string is a sequence of UTF-16 code units, each written as a one      *)
(* element string ("a", " ", "*", the newline NL) or, for the code units   *)
(* of an emoji glyph, by its hexadecimal name ("D83D").  The length of a   *)
(* string is its number of code units, as String.length is.                *)
(***************************************************************************)
EXTENDS Integers, Sequences, FiniteSets, TLC

\* ------------------------------------------------------------------ bounds
MaxAtoms == 3
MaxMdLen == 5
MaxItems == 3
MaxEditorLen == 3
SmallMaxLength == 1
MaxNodes == 2
SmallTitleMax == 1
MaxUploads == 2
MaxSubmits == 1
MaxPhotos == 5

\* -------------------------------------------------------------- characters
NL == "\n"

IsWhitespace(c) == c \in {" ", NL}

IsDigit(c) == c \in {"0", "1", "2", "3", "4", "5", "6", "7", "8", "9"}

Digits == <<"0", "1", "2", "3", "4", "5", "6", "7", "8", "9">>

\* `${listIndex}`: the decimal numeral of a natural number
RECURSIVE NumToStr(_)
NumToStr(n) ==
    IF n < 10 THEN <<Digits[n + 1]>>
    ELSE NumToStr(n \div 10) \o <<Digits[(n % 10) + 1]>>

\* String.prototype.trim
RECURSIVE TrimLeft(_)
TrimLeft(s) ==
    IF s # <<>> /\ IsWhitespace(Head(s)) THEN TrimLeft(Tail(s)) ELSE s

RECURSIVE TrimRight(_)
TrimRight(s) ==
    IF s # <<>> /\ IsWhitespace(s[Len(s)])
    THEN TrimRight(SubSeq(s, 1, Len(s) - 1))
    ELSE s

Trim(s) == TrimRight(TrimLeft(s))

\* String.prototype.startsWith
StartsWith(s, p) == Len(s) >= Len(p) /\ SubSeq(s, 1, Len(p)) = p

\* String.prototype.substring(n), n counted from 0
Substring(s, n) == SubSeq(s, n + 1, Len(s))

\* whether p occurs in s as a substring
Contains(s, p) ==
    \E i \in 1..(Len(s) - Len(p) + 1) : SubSeq(s, i, i + Len(p) - 1) = p

\* String.prototype.split('\n')
RECURSIVE SplitLines(_, _)
SplitLines(s, cur) ==
    IF s = <<>> THEN <<cur>>
    ELSE IF Head(s) = NL THEN <<cur>> \o SplitLines(Tail(s), <<>>)
    ELSE SplitLines(Tail(s), Append(cur, Head(s)))

\* split that drops the empty piece after a final "\n"
SplitNoTrailing(s) ==
    IF s # <<>> /\ s[Len(s)] = NL
    THEN SplitLines(SubSeq(s, 1, Len(s) - 1), <<>>)
    ELSE SplitLines(s, <<>>)

Split(s) == SplitLines(s, <<>>)

\* ------------------------------------------------------------ emoji dataset
\* The emoji dataset (fun/data/emojis.std): variant key -> glyph.
EmojiKeys == {"1F600", "1F635-200D-1F4AB"}

getEmojiVariantByKey(key) ==
    IF key = "1F600" THEN <<"D83D", "DE00">>
    ELSE <<"D83D", "DE35", "200D", "D83D", "DCAB">>

EmojiValues == {getEmojiVariantByKey(k) : k \in EmojiKeys}

isEmojiVariantValue(value) == value \in EmojiValues

getEmojiVariantKeyByValue(value) ==
    CHOOSE k \in EmojiKeys : getEmojiVariantByKey(k) = value

\* ------------------------------------------------------------------- Delta
\* Quill attributes of an operation; NoAttrs is "attributes undefined".
NoAttrs ==
    [bold |-> FALSE, italic |-> FALSE, underline |-> FALSE,
     list |-> "", blockquote |-> FALSE]

Bold == [NoAttrs EXCEPT !.bold = TRUE]
Italic == [NoAttrs EXCEPT !.italic = TRUE]
Underline == [NoAttrs EXCEPT !.underline = TRUE]
Blockquote == [NoAttrs EXCEPT !.blockquote = TRUE]
Ordered == [NoAttrs EXCEPT !.list = "ordered"]
Bullet == [NoAttrs EXCEPT !.list = "bullet"]

\* An operation {insert: string, attributes} or {insert: {emoji: ...}}: the
\* embed field is the variant key of an emoji embed, "" for a string insert.
TextOp(s, a) == [insert |-> s, embed |-> "", attributes |-> a]
EmbedOp(key) == [insert |-> <<>>, embed |-> key, attributes |-> NoAttrs]

IsString(op) == op.embed = ""

\* Delta.insert(arg, attributes) for a string: an empty string is dropped, a
\* string following a string insert with equal attributes is merged into it.
DeltaInsert(ops, s, a) ==
    IF s = <<>> THEN ops
    ELSE IF ops # <<>> /\ IsString(ops[Len(ops)]) /\ ops[Len(ops)].attributes = a
    THEN [ops EXCEPT ![Len(ops)] = TextOp(ops[Len(ops)].insert \o s, a)]
    ELSE Append(ops, TextOp(s, a))

\* Delta.insert(arg) for an embed object
DeltaInsertEmbed(ops, key) == Append(ops, EmbedOp(key))

\* ---------------------------------------------------------- deltaToMarkdown
\* nextIsFormattedNewline: the operation after ops[i] is a "\n" insert whose
\* attributes hold list or blockquote
NextIsFormattedNewline(ops, i) ==
    /\ i + 1 <= Len(ops)
    /\ IsString(ops[i + 1])
    /\ ops[i + 1].insert = <<NL>>
    /\ (ops[i + 1].attributes.list # "" \/ ops[i + 1].attributes.blockquote)

\* the prefix chosen from the next newline's attributes
LinePrefix(a, listIndex) ==
    IF a.list = "ordered" THEN NumToStr(listIndex) \o <<".", " ">>
    ELSE IF a.list = "bullet" THEN <<"-", " ">>
    ELSE IF a.blockquote THEN <<">", " ">>
    ELSE <<>>

\* InlineWrap writing Bold with the single "*" of Italic
InlineWrapBoldOneStar(text, a) ==
    LET t1 == IF a.bold \/ a.italic THEN <<"*">> \o text \o <<"*">> ELSE text
    IN  IF a.underline
        THEN <<"<", "u", ">">> \o t1 \o <<"<", "/", "u", ">">>
        ELSE t1

\* InlineWrap writing Italic with "_" and Underline with "__"
InlineWrapUnderscores(text, a) ==
    LET t1 == IF a.bold THEN <<"*", "*">> \o text \o <<"*", "*">> ELSE text
        t2 == IF a.italic THEN <<"_">> \o t1 \o <<"_">> ELSE t1
    IN  IF a.underline THEN <<"_", "_">> \o t2 \o <<"_", "_">> ELSE t2

\* inline formatting of a text that is not "\n": bold wraps first, then
\* italic around it, then underline around both
InlineWrap(text, a) ==
    LET t1 == IF a.bold THEN <<"*", "*">> \o text \o <<"*", "*">> ELSE text
        t2 == IF a.italic THEN <<"*">> \o t1 \o <<"*">> ELSE t1
    IN  IF a.underline
        THEN <<"<", "u", ">">> \o t2 \o <<"<", "/", "u", ">">>
        ELSE t2

\* The for loop of deltaToMarkdown from operation i on, with the loop's
\* variables markdown, listIndex and isStartOfLine.
RECURSIVE EmitLoop(_, _, _, _, _)
EmitLoop(ops, i, markdown, listIndex, isStartOfLine) ==
    IF i > Len(ops) THEN markdown
    ELSE IF ~IsString(ops[i])
    THEN EmitLoop(ops, i + 1, markdown, listIndex, isStartOfLine)
    ELSE
        LET op == ops[i]
            formatted == NextIsFormattedNewline(ops, i)
            addPrefix == isStartOfLine /\ formatted /\ op.insert # <<NL>>
            prefix ==
                IF addPrefix THEN LinePrefix(ops[i + 1].attributes, listIndex)
                ELSE <<>>
            listIndex1 ==
                IF addPrefix /\ ops[i + 1].attributes.list = "ordered"
                THEN listIndex + 1
                ELSE listIndex
            text ==
                IF op.attributes # NoAttrs /\ op.insert # <<NL>>
                THEN InlineWrap(op.insert, op.attributes)
                ELSE op.insert
            isNewline == text = <<NL>>
        IN  EmitLoop(ops, i + 1, markdown \o prefix \o text,
                     IF isNewline /\ ~formatted THEN 1 ELSE listIndex1,
                     IF isNewline THEN TRUE
                     ELSE IF addPrefix THEN FALSE ELSE isStartOfLine)

\* deltaToMarkdown returning markdown without trim()
deltaToMarkdownNoTrim(ops) == EmitLoop(ops, 1, <<>>, 1, TRUE)

deltaToMarkdown(ops) == Trim(EmitLoop(ops, 1, <<>>, 1, TRUE))

\* ---------------------------------------------------------- markdownToDelta
\* number of leading digits of a line
RECURSIVE LeadingDigits(_)
LeadingDigits(line) ==
    IF line # <<>> /\ IsDigit(Head(line)) THEN 1 + LeadingDigits(Tail(line))
    ELSE 0

\* line.match(/^(\d+)\.\s+(.*)$/) is not null
OrderedMatch(line) ==
    LET d == LeadingDigits(line)
    IN  /\ d >= 1
        /\ Len(line) >= d + 2
        /\ line[d + 1] = "."
        /\ IsWhitespace(line[d + 2])

\* orderedMatch[2]: what follows the numeral, the dot and all the whitespace
OrderedRest(line) == TrimLeft(Substring(line, LeadingDigits(line) + 1))

\* "**" stands at position p (from 1) of the line
StarsAt(line, p) == p + 1 <= Len(line) /\ line[p] = "*" /\ line[p + 1] = "*"

\* /\*\*(.+?)\*\*/ matches at position p: "**", at least one character, "**"
BoldMatchAt(line, p) ==
    StarsAt(line, p) /\ \E k \in 1..Len(line) : StarsAt(line, p + 2 + k)

\* length of the interior of the non-greedy match at p
BoldInterior(line, p) ==
    CHOOSE k \in 1..Len(line) :
        /\ StarsAt(line, p + 2 + k)
        /\ \A j \in 1..(k - 1) : ~StarsAt(line, p + 2 + j)

\* boldRegex.exec(line) from position pos on: the position of the leftmost
\* match, 0 when there is none
NextBold(line, pos) ==
    IF \E p \in pos..Len(line) : BoldMatchAt(line, p)
    THEN CHOOSE p \in pos..Len(line) :
            BoldMatchAt(line, p) /\ \A q \in pos..(p - 1) : ~BoldMatchAt(line, q)
    ELSE 0

\* segments of a strict reading: an opening "**" makes the rest of the line
\* bold, closed or not
BoldSegmentsOpenRun(line, pos) ==
    IF \E p \in pos..Len(line) : StarsAt(line, p)
    THEN LET p == CHOOSE q \in pos..Len(line) :
                      StarsAt(line, q) /\ \A r \in pos..(q - 1) : ~StarsAt(line, r)
         IN  (IF p > pos
              THEN <<[text |-> SubSeq(line, pos, p - 1), bold |-> FALSE]>>
              ELSE <<>>)
             \o <<[text |-> SubSeq(line, p + 2, Len(line)), bold |-> TRUE]>>
    ELSE IF pos <= Len(line)
    THEN <<[text |-> SubSeq(line, pos, Len(line)), bold |-> FALSE]>>
    ELSE <<>>

\* the segments array built by the while loop and the final substring; pos is
\* lastIndex + 1
RECURSIVE BoldSegments(_, _)
BoldSegments(line, pos) ==
    LET p == NextBold(line, pos)
    IN  IF p = 0
        THEN IF pos <= Len(line)
             THEN <<[text |-> SubSeq(line, pos, Len(line)), bold |-> FALSE]>>
             ELSE <<>>
        ELSE LET k == BoldInterior(line, p)
                 before ==
                     IF p > pos
                     THEN <<[text |-> SubSeq(line, pos, p - 1), bold |-> FALSE]>>
                     ELSE <<>>
             IN  before
                 \o <<[text |-> SubSeq(line, p + 2, p + 1 + k), bold |-> TRUE]>>
                 \o BoldSegments(line, p + k + 4)

\* "Insert segments": delta.insert(segment.text, attrs) for each segment
RECURSIVE InsertSegments(_, _)
InsertSegments(ops, segments) ==
    IF segments = <<>> THEN ops
    ELSE InsertSegments(
            DeltaInsert(ops, Head(segments).text,
                        IF Head(segments).bold THEN Bold ELSE NoAttrs),
            Tail(segments))

\* the body of the for loop of markdownToDelta for one line
ParseLine(ops, line) ==
    IF StartsWith(line, <<">", " ">>)
    THEN DeltaInsert(DeltaInsert(ops, Substring(line, 2), NoAttrs), <<NL>>, Blockquote)
    ELSE IF OrderedMatch(line)
    THEN DeltaInsert(DeltaInsert(ops, OrderedRest(line), NoAttrs), <<NL>>, Ordered)
    ELSE IF StartsWith(line, <<"-", " ">>)
    THEN DeltaInsert(DeltaInsert(ops, Substring(line, 2), NoAttrs), <<NL>>, Bullet)
    ELSE DeltaInsert(InsertSegments(ops, BoldSegments(line, 1)), <<NL>>, NoAttrs)

RECURSIVE ParseLines(_, _)
ParseLines(ops, lines) ==
    IF lines = <<>> THEN ops
    ELSE ParseLines(ParseLine(ops, Head(lines)), Tail(lines))

markdownToDelta(markdown) == ParseLines(<<>>, Split(markdown))

\* --------------------------------------------------------- editor contents
\* The editor's document by position: one atom per index of the Quill
\* document, a UTF-16 code unit with its formats or an emoji embed.
CharAtom(c, a) == [ch |-> c, embed |-> "", attributes |-> a]
EmbedAtom(key) == [ch |-> "", embed |-> key, attributes |-> NoAttrs]

\* quill.getContents(): the Delta of the document, built with Delta.insert
RECURSIVE ContentsFrom(_, _)
ContentsFrom(ops, atoms) ==
    IF atoms = <<>> THEN ops
    ELSE ContentsFrom(
            IF Head(atoms).embed # ""
            THEN DeltaInsertEmbed(ops, Head(atoms).embed)
            ELSE DeltaInsert(ops, <<Head(atoms).ch>>, Head(atoms).attributes),
            Tail(atoms))

getContents(atoms) == ContentsFrom(<<>>, atoms)

\* quill.setContents(delta) for a Delta that ends with a newline: the
\* document holds exactly the Delta's inserts, position by position
RECURSIVE setContents(_)
setContents(ops) ==
    IF ops = <<>> THEN <<>>
    ELSE (IF IsString(Head(ops))
          THEN [i \in 1..Len(Head(ops).insert) |->
                    CharAtom(Head(ops).insert[i], Head(ops).attributes)]
          ELSE <<EmbedAtom(Head(ops).embed)>>)
         \o setContents(Tail(ops))

\* the string inserts of a Delta, joined (what quill.getText() returns)
RECURSIVE PlainText(_)
PlainText(ops) ==
    IF ops = <<>> THEN <<>>
    ELSE (IF IsString(Head(ops)) THEN Head(ops).insert ELSE <<>>)
         \o PlainText(Tail(ops))

\* ------------------------------------------------------------------- state
VARIABLES
    input,      \* what the conversion starts from: a Delta or a markdown string
    doc,        \* the Delta at hand
    md,         \* the markdown at hand
    steps       \* the conversions applied so far, in order

convVars == <<input, doc, md, steps>>

VARIABLES
    contents,        \* the Quill document, by position; its last atom is "\n"
    selection,       \* quill.getSelection(): the cursor index, or NoSelection
    maxLength,       \* the maxLength prop, 0 when it is not given
    body,            \* the host's state set by onChange (the composer's body)
    characterCount,  \* the editor's characterCount state
    changes,         \* the markdown handed to onChange by the last operation, in order
    last             \* the last operation: its name, argument and the state before it

editorVars ==
    <<contents, selection, maxLength, body, characterCount, changes, last>>

VARIABLES
    nodes,      \* the DOM nodes of emoji blots, each by its data-* attributes
    result      \* the last EmojiBlot call and what it returned or threw

blotVars == <<nodes, result>>

VARIABLES
    mode,            \* the composer's mode prop: "thread" or "reply"
    title,           \* the composer's title state
    pickerOpen,      \* the composer's pickerOpen state
    selectedGif,     \* the selected GIF, "" for null
    selectedSticker, \* the selected sticker, "" for null
    uploadProgress,  \* the upload's progress, NoProgress for null
    uploadFileName,  \* the name of the file being uploaded, 0 for ''
    uploadFileSize,  \* its formatted size, 0 for ''
    intervals,       \* the uploads whose setInterval timer is live
    timeouts,        \* the uploads whose completion setTimeout is pending
    uploads,         \* how many files were selected so far
    submits          \* how many times onSubmit was called

composerVars ==
    <<mode, title, pickerOpen, selectedGif, selectedSticker, uploadProgress,
      uploadFileName, uploadFileSize, intervals, timeouts, uploads, submits>>

VARIABLES
    photos,          \* photos.length of the gallery
    lightboxOpen,    \* the gallery's lightboxOpen state
    currentIndex     \* the gallery's currentIndex state

galleryVars == <<photos, lightboxOpen, currentIndex>>

vars == <<input, doc, md, steps, contents, selection, maxLength, body,
          characterCount, changes, last, nodes, result, mode, title,
          pickerOpen, selectedGif, selectedSticker, uploadProgress,
          uploadFileName, uploadFileSize, intervals, timeouts, uploads,
          submits, photos, lightboxOpen, currentIndex>>

\* ------------------------------------------------------ conversion pipeline

\* Documents given to deltaToMarkdown: the contents of an editor whose
\* document has up to MaxAtoms positions before its final newline.
DocChars == {"a", " ", "*", ">"}
InlineAttrs == {NoAttrs, Bold, Italic, Underline}
BlockAttrs == {NoAttrs, Blockquote, Ordered, Bullet}

DocAtoms ==
    {CharAtom(c, a) : c \in DocChars, a \in InlineAttrs}
    \cup {CharAtom(NL, a) : a \in BlockAttrs}
    \cup {EmbedAtom(k) : k \in EmojiKeys}

Str(s) == [i \in 1..Len(s) |-> CharAtom(s[i], NoAttrs)]

ExampleDocs ==
    { <<TextOp(<<"h", "e", "l", "l", "o">>, NoAttrs), TextOp(<<NL>>, Blockquote)>>,
      getContents(Str(<<"1", ".", " ", "a", NL>>)),
      getContents(Str(<<"-", " ", "a", NL>>)),
      <<TextOp(<<"a">>, [NoAttrs EXCEPT !.bold = TRUE, !.italic = TRUE,
                                        !.underline = TRUE]),
        TextOp(<<NL>>, NoAttrs)>>,
      <<TextOp(<<"a">>, [NoAttrs EXCEPT !.bold = TRUE, !.underline = TRUE]),
        TextOp(<<NL>>, NoAttrs)>> }

\* Markdown given to markdownToDelta: every string of up to MaxMdLen
\* characters, ordered lists of up to MaxItems items, and examples.
MdChars == {"a", " ", NL, "*", "-", ">", "1", "."}

Numerals == {<<"1">>, <<"5">>, <<"1", "2">>}

RECURSIVE OrderedLists(_)
OrderedLists(n) ==
    IF n = 0 THEN {<<>>}
    ELSE { l \o num \o <<".", " ", "a", NL>> :
             l \in OrderedLists(n - 1), num \in Numerals }

ExampleMarkdowns ==
    { <<"5", ".", " ", "f", "o", "o", NL, "6", ".", " ", "b", "a", "r", NL>>,
      <<">", " ", "h", "e", "l", "l", "o", NL>>,
      <<">", " ", "*", "*", "a", "*", "*">>,
      <<"-", " ", "*", "*", "a", "*", "*">>,
      <<"1", ".", " ", "*", "*", "a", "*", "*">> }
    \cup { pre \o getEmojiVariantByKey(k) \o post :
             pre \in {<<>>, <<"a">>}, post \in {<<>>, <<"a">>, <<NL>>},
             k \in EmojiKeys }

DocInput(d) == [kind |-> "doc", doc |-> d, md |-> <<>>]
MdInput(m) == [kind |-> "md", doc |-> <<>>, md |-> m]

ConvInit ==
    /\ \/ \E n \in 0..MaxAtoms : \E line \in [1..n -> DocAtoms], b \in BlockAttrs :
              input = DocInput(getContents(line \o <<CharAtom(NL, b)>>))
       \/ \E d \in ExampleDocs : input = DocInput(d)
       \/ \E n \in 0..MaxMdLen : \E m \in [1..n -> MdChars] : input = MdInput(m)
       \/ \E n \in 1..MaxItems : \E m \in OrderedLists(n) : input = MdInput(m)
       \/ \E m \in ExampleMarkdowns : input = MdInput(m)
    /\ doc = input.doc
    /\ md = input.md
    /\ steps = <<>>

\* a Delta is emitted once; a markdown string is parsed, emitted, parsed
\* and emitted again
MaxSteps == IF input.kind = "doc" THEN 2 ELSE 4

NextStep ==
    IF steps = <<>> THEN (IF input.kind = "doc" THEN "emit" ELSE "parse")
    ELSE IF steps[Len(steps)] = "emit" THEN "parse" ELSE "emit"

Emit ==
    /\ Len(steps) < MaxSteps
    /\ NextStep = "emit"
    /\ md' = deltaToMarkdown(doc)
    /\ steps' = Append(steps, "emit")
    /\ UNCHANGED <<input, doc>>
    /\ UNCHANGED editorVars
    /\ UNCHANGED blotVars
    /\ UNCHANGED <<composerVars, galleryVars>>

Parse ==
    /\ Len(steps) < MaxSteps
    /\ NextStep = "parse"
    /\ doc' = markdownToDelta(md)
    /\ steps' = Append(steps, "parse")
    /\ UNCHANGED <<input, md>>
    /\ UNCHANGED editorVars
    /\ UNCHANGED blotVars
    /\ UNCHANGED <<composerVars, galleryVars>>


\* ------------------------------------------------------------------ editor
\* getSelection() returns null
NoSelection == -1

\* quill.getLength()
getLength(atoms) == Len(atoms)

\* quill.getText(): the string inserts of the document; embeds add nothing
getText(atoms) == PlainText(getContents(atoms))

\* insertText falling back to the start of the document
InsertIndexStart(sel, atoms) == IF sel = NoSelection THEN 0 ELSE sel

\* selection ? selection.index : quill.getLength() - 1
InsertIndex(sel, atoms) == IF sel # NoSelection THEN sel ELSE getLength(atoms) - 1

InsertAt(atoms, index, new) ==
    SubSeq(atoms, 1, index) \o new \o SubSeq(atoms, index + 1, Len(atoms))

RemoveAt(atoms, index) ==
    SubSeq(atoms, 1, index - 1) \o SubSeq(atoms, index + 1, Len(atoms))

InlineOf(a) == [a EXCEPT !.list = "", !.blockquote = FALSE]

\* The inline formats text inserted at index takes: those of the leaf it is
\* inserted into, the character at index or, at the end of a line, the
\* character before it.
InheritedAttrs(atoms, index) ==
    IF atoms[index + 1].embed # "" THEN NoAttrs
    ELSE IF atoms[index + 1].ch # NL THEN InlineOf(atoms[index + 1].attributes)
    ELSE IF index >= 1 /\ atoms[index].embed = "" /\ atoms[index].ch # NL
    THEN InlineOf(atoms[index].attributes)
    ELSE NoAttrs

TextAtoms(text, a) == [i \in 1..Len(text) |-> CharAtom(text[i], a)]

\* quill.setSelection(index): the index is kept inside the document
ClampSelection(index, atoms) ==
    IF index > getLength(atoms) - 1 THEN getLength(atoms) - 1 ELSE index

\* The cursor after setContents replaced the whole document: a cursor past
\* the start moves to the end of the document.
CursorAfterSetContents(index, atoms) ==
    IF index = NoSelection \/ index = 0 THEN index ELSE getLength(atoms) - 1

\* handleTextChange: a 'user' change that leaves the trimmed text longer than
\* maxLength is undone with setContents(oldDelta)
ExceedsMaxLength(atoms, source) ==
    /\ maxLength # 0
    /\ source = "user"
    /\ Len(Trim(getText(atoms))) > maxLength

\* handleTextChange cutting the document down to maxLength positions
TextChangeTruncated(new, old, source) ==
    IF ExceedsMaxLength(new, source)
    THEN LET cut == SubSeq(new, 1, maxLength) \o <<CharAtom(NL, NoAttrs)>>
         IN  [contents |-> cut,
              changes |-> <<deltaToMarkdown(getContents(new)),
                            deltaToMarkdown(getContents(cut))>>,
              reverted |-> TRUE]
    ELSE [contents |-> new,
          changes |-> <<deltaToMarkdown(getContents(new))>>,
          reverted |-> FALSE]

\* handleTextChange undoing with setContents(oldDelta, 'silent'): no
\* 'text-change' is emitted for the revert
TextChangeSilentRevert(new, old, source) ==
    IF ExceedsMaxLength(new, source)
    THEN [contents |-> setContents(getContents(old)),
          changes |-> <<deltaToMarkdown(getContents(new))>>,
          reverted |-> TRUE]
    ELSE [contents |-> new,
          changes |-> <<deltaToMarkdown(getContents(new))>>,
          reverted |-> FALSE]

\* The 'text-change' listeners, in the order they were registered, for a
\* change from old to new: the listener that reports to onChange, then
\* handleTextChange, whose setContents emits 'text-change' again with source
\* 'api'.  Gives the document left and the markdown handed to onChange.
TextChange(new, old, source) ==
    IF ExceedsMaxLength(new, source)
    THEN [contents |-> setContents(getContents(old)),
          changes |-> <<deltaToMarkdown(getContents(new)),
                        deltaToMarkdown(getContents(old))>>,
          reverted |-> TRUE]
    ELSE [contents |-> new,
          changes |-> <<deltaToMarkdown(getContents(new))>>,
          reverted |-> FALSE]

\* The state the listeners leave after a change from the current contents.
\* sel is the cursor the change leaves; with explicit, the caller then calls
\* setSelection(sel) itself.
Committed(new, source, sel, explicit) ==
    LET r == TextChange(new, contents, source)
    IN  /\ contents' = r.contents
        /\ changes' = r.changes
        /\ body' = r.changes[Len(r.changes)]
        /\ characterCount' = Len(Trim(getText(r.contents)))
        /\ selection' =
              IF r.reverted /\ ~explicit
              THEN CursorAfterSetContents(sel, r.contents)
              ELSE ClampSelection(sel, r.contents)

\* the record of an operation: its name, its argument, the index it acted at
\* and whether quill.getSelection() gave a selection when it was called
Call(name, arg, index) ==
    [op |-> name, arg |-> arg, index |-> index,
     selected |-> selection # NoSelection]

NoCall == [op |-> "init", arg |-> <<>>, index |-> 0, selected |-> FALSE]

InitialMarkdowns == {<<>>, <<"a">>, <<"*", "*", "a", "*", "*">>}

EditorInit ==
    /\ maxLength \in {0, SmallMaxLength}
    /\ \E m \in InitialMarkdowns :
          /\ contents =
                IF m # <<>> THEN setContents(markdownToDelta(m))
                ELSE <<CharAtom(NL, NoAttrs)>>
          /\ body = m
    /\ selection = NoSelection
    /\ characterCount = 0
    /\ changes = <<>>
    /\ last = NoCall

\* the user puts the cursor at index i
Click(i) ==
    /\ selection' = i
    /\ last' = Call("click", <<>>, 0)
    /\ UNCHANGED <<contents, maxLength, body, characterCount, changes>>
    /\ UNCHANGED convVars
    /\ UNCHANGED blotVars
    /\ UNCHANGED <<composerVars, galleryVars>>

\* the editor loses the selection
Blur ==
    /\ selection # NoSelection
    /\ selection' = NoSelection
    /\ last' = Call("blur", <<>>, 0)
    /\ UNCHANGED <<contents, maxLength, body, characterCount, changes>>
    /\ UNCHANGED convVars
    /\ UNCHANGED blotVars
    /\ UNCHANGED <<composerVars, galleryVars>>

TypedChars == {"a", " "}

\* the user types one character at the cursor (a change of source 'user')
UserType(c) ==
    /\ selection # NoSelection
    /\ getLength(contents) <= MaxEditorLen
    /\ Committed(InsertAt(contents, selection,
                          <<CharAtom(c, InheritedAttrs(contents, selection))>>),
                 "user", selection + 1, FALSE)
    /\ last' = Call("type", <<c>>, selection)
    /\ UNCHANGED <<maxLength, input, doc, md, steps, nodes, result,
                     composerVars, galleryVars>>

\* the user deletes the position before the cursor (source 'user')
UserDelete ==
    /\ selection # NoSelection
    /\ selection >= 1
    /\ Committed(RemoveAt(contents, selection), "user", selection - 1, FALSE)
    /\ last' = Call("delete", <<>>, selection)
    /\ UNCHANGED <<maxLength, input, doc, md, steps, nodes, result,
                     composerVars, galleryVars>>

ApiTexts == {<<"a", "a">>}

\* the editor API's insertText(text): quill.insertText commits with source 'api'
insertText(name, text) ==
    LET index == InsertIndex(selection, contents)
    IN  /\ getLength(contents) <= MaxEditorLen
        /\ Committed(InsertAt(contents, index,
                              TextAtoms(text, InheritedAttrs(contents, index))),
                     "api", index + Len(text), TRUE)
        /\ last' = Call(name, text, index)
        /\ UNCHANGED <<maxLength, input, doc, md, steps, nodes, result,
                     composerVars, galleryVars>>

InsertText(text) == insertText("insertText", text)

\* EmojiBlot.create: the node stores the variant key of a known emoji value
EmojiBlotCreate(emoji) == EmbedAtom(getEmojiVariantKeyByValue(emoji))

UnknownGlyph == <<"a">>

\* the editor API's insertEmoji(emoji): updateContents with source 'user',
\* then setSelection(index + 1).  EmojiBlot.create throws on a value that is
\* no known emoji and nothing is inserted.
InsertEmoji(emoji) ==
    LET index == InsertIndex(selection, contents)
    IN  /\ getLength(contents) <= MaxEditorLen
        /\ IF isEmojiVariantValue(emoji)
           THEN Committed(InsertAt(contents, index, <<EmojiBlotCreate(emoji)>>),
                          "user", index + 1, TRUE)
           ELSE UNCHANGED <<contents, selection, body, characterCount, changes>>
        /\ last' = Call("insertEmoji", emoji, index)
        /\ UNCHANGED <<maxLength, input, doc, md, steps, nodes, result,
                     composerVars, galleryVars>>

\* the composer's handleSelectEmoji: the variant's value goes to the editor
\* API's insertText
HandleSelectEmoji(key) ==
    insertText("handleSelectEmoji", getEmojiVariantByKey(key))

\* --------------------------------------------------------------- EmojiBlot
\* A blot's DOM node, by its dataset: data-emoji-key, data-emoji (the old
\* format) and data-source.  "" and <<>> stand for an absent attribute.
Node(key, glyph, source) == [emojiKey |-> key, emoji |-> glyph, source |-> source]

Sources == {"", "picker"}

\* what a call returned, or the error it threw
Returned(name, arg, value, source) ==
    [op |-> name, arg |-> arg, ok |-> TRUE, value |-> value, source |-> source,
     error |-> "", index |-> 0]

Threw(name, arg, message) ==
    [op |-> name, arg |-> arg, ok |-> FALSE, value |-> <<>>, source |-> "",
     error |-> message, index |-> 0]

NoResult == Threw("init", <<>>, "")

\* EmojiBlot.value reading only data-emoji, the old format
EmojiBlotValueLegacyOnly(node) ==
    IF node.emoji # <<>>
    THEN Returned("value", node, node.emoji, node.source)
    ELSE Threw("value", node, "missing data-emoji")

\* EmojiBlot.value(node): the key is preferred over the stored glyph
EmojiBlotValue(node) ==
    IF node.emojiKey # ""
    THEN Returned("value", node, getEmojiVariantByKey(node.emojiKey), node.source)
    ELSE IF node.emoji # <<>>
    THEN Returned("value", node, node.emoji, node.source)
    ELSE Threw("value", node, "missing both data-emoji-key and data-emoji")

\* EmojiBlot.create without the strictAssert: the glyph is stored as it is
EmojiBlotNodeUnchecked(emoji, source) ==
    IF isEmojiVariantValue(emoji)
    THEN <<Node(getEmojiVariantKeyByValue(emoji), <<>>, source)>>
    ELSE <<Node("", emoji, source)>>

\* EmojiBlot.create({value, source}): the node it returns, as a sequence of
\* one node, or no node when strictAssert throws
EmojiBlotNode(emoji, source) ==
    IF isEmojiVariantValue(emoji)
    THEN <<Node(getEmojiVariantKeyByValue(emoji), <<>>, source)>>
    ELSE <<>>

\* the nodes of stored content: the old format with data-emoji, with or
\* without a key beside it, and a node with neither attribute
StoredNodes ==
    {Node(k, g, s) : k \in EmojiKeys \cup {""},
                     g \in EmojiValues \cup {UnknownGlyph},
                     s \in Sources}
    \cup {Node("", <<>>, "")}

BlotInit == nodes = <<>> /\ result = NoResult

\* EmojiBlot.create is called for an inserted embed
BlotCreate(emoji, source) ==
    /\ Len(nodes) < MaxNodes
    /\ nodes' = nodes \o EmojiBlotNode(emoji, source)
    /\ result' =
          IF EmojiBlotNode(emoji, source) # <<>>
          THEN Returned("create", emoji, emoji, source)
          ELSE Threw("create", emoji, "Value is not a known emoji")
    /\ UNCHANGED convVars
    /\ UNCHANGED editorVars
    /\ UNCHANGED <<composerVars, galleryVars>>

\* a node of stored content is attached to the document
BlotLoad(node) ==
    /\ Len(nodes) < MaxNodes
    /\ nodes' = Append(nodes, node)
    /\ result' = Returned("load", node, <<>>, "")
    /\ UNCHANGED convVars
    /\ UNCHANGED editorVars
    /\ UNCHANGED <<composerVars, galleryVars>>

\* EmojiBlot.value is called on the i-th node; the node is left as it is
BlotValue(i) ==
    /\ result' = [EmojiBlotValue(nodes[i]) EXCEPT !.index = i]
    /\ UNCHANGED nodes
    /\ UNCHANGED convVars
    /\ UNCHANGED editorVars
    /\ UNCHANGED <<composerVars, galleryVars>>

\* ---------------------------------------------------------- OrbitalComposer
NoProgress == -1

\* Math.min(100, prev + Math.random() * 10 + 5), one interval tick in
\* coarser steps
ProgressStep == 50

TitleValues == {<<>>, <<" ">>, <<"a">>, <<"a", "a">>}

\* the useState initial values of the composer
ComposerStart ==
    /\ title = <<>>
    /\ pickerOpen = FALSE
    /\ selectedGif = "" /\ selectedSticker = ""
    /\ uploadProgress = NoProgress
    /\ uploadFileName = 0 /\ uploadFileSize = 0
    /\ intervals = {} /\ timeouts = {}
    /\ uploads = 0
    /\ submits = 0

\* what the composer's handlers leave alone outside the composer
ComposerFrame ==
    /\ UNCHANGED <<contents, selection, maxLength, characterCount, changes>>
    /\ UNCHANGED <<convVars, blotVars, galleryVars>>

\* handleTitleChange: a value longer than TITLE_MAX_LENGTH is not taken
HandleTitleChange(newValue) ==
    /\ mode = "thread"
    /\ title' = IF Len(newValue) <= SmallTitleMax THEN newValue ELSE title
    /\ last' = Call("handleTitleChange", newValue, 0)
    /\ UNCHANGED <<mode, pickerOpen, selectedGif, selectedSticker,
                   uploadProgress, uploadFileName, uploadFileSize, intervals,
                   timeouts, uploads, submits, body>>
    /\ ComposerFrame

\* FunPicker's onOpenChange={setPickerOpen}
SetPickerOpen(open) ==
    /\ pickerOpen # open
    /\ pickerOpen' = open
    /\ last' = Call("setPickerOpen", <<>>, 0)
    /\ UNCHANGED <<mode, title, selectedGif, selectedSticker, uploadProgress,
                   uploadFileName, uploadFileSize, intervals, timeouts,
                   uploads, submits, body>>
    /\ ComposerFrame

HandleSelectGif ==
    /\ pickerOpen
    /\ selectedGif' = "gif"
    /\ pickerOpen' = FALSE
    /\ last' = Call("handleSelectGif", <<>>, 0)
    /\ UNCHANGED <<mode, title, selectedSticker, uploadProgress,
                   uploadFileName, uploadFileSize, intervals, timeouts,
                   uploads, submits, body>>
    /\ ComposerFrame

HandleSelectSticker ==
    /\ pickerOpen
    /\ selectedSticker' = "sticker"
    /\ pickerOpen' = FALSE
    /\ last' = Call("handleSelectSticker", <<>>, 0)
    /\ UNCHANGED <<mode, title, selectedGif, uploadProgress, uploadFileName,
                   uploadFileSize, intervals, timeouts, uploads, submits, body>>
    /\ ComposerFrame

\* the remove button of the GIF preview
HandleRemoveGif ==
    /\ selectedGif # ""
    /\ selectedGif' = ""
    /\ last' = Call("handleRemoveGif", <<>>, 0)
    /\ UNCHANGED <<mode, title, pickerOpen, selectedSticker, uploadProgress,
                   uploadFileName, uploadFileSize, intervals, timeouts,
                   uploads, submits, body>>
    /\ ComposerFrame

HandleRemoveSticker ==
    /\ selectedSticker # ""
    /\ selectedSticker' = ""
    /\ last' = Call("handleRemoveSticker", <<>>, 0)
    /\ UNCHANGED <<mode, title, pickerOpen, selectedGif, uploadProgress,
                   uploadFileName, uploadFileSize, intervals, timeouts,
                   uploads, submits, body>>
    /\ ComposerFrame

\* handleFileSelect for the k-th file chosen: its name and size are shown,
\* progress starts at 0 and an interval timer is started
HandleFileSelect ==
    /\ uploads < MaxUploads
    /\ uploads' = uploads + 1
    /\ uploadFileName' = uploads + 1
    /\ uploadFileSize' = uploads + 1
    /\ uploadProgress' = 0
    /\ intervals' = intervals \cup {uploads + 1}
    /\ last' = Call("handleFileSelect", <<>>, uploads + 1)
    /\ UNCHANGED <<mode, title, pickerOpen, selectedGif, selectedSticker,
                   timeouts, submits, body>>
    /\ ComposerFrame

\* the interval callback of upload k: setUploadProgress(prev => ...)
IntervalTick(k) ==
    /\ k \in intervals
    /\ IF uploadProgress = NoProgress
       THEN UNCHANGED <<uploadProgress, intervals, timeouts>>
       ELSE IF uploadProgress >= 100
       THEN /\ intervals' = intervals \ {k}
            /\ timeouts' = timeouts \cup {k}
            /\ uploadProgress' = 100
       ELSE /\ uploadProgress' =
                  IF uploadProgress + ProgressStep > 100 THEN 100
                  ELSE uploadProgress + ProgressStep
            /\ UNCHANGED <<intervals, timeouts>>
    /\ last' = Call("interval", <<>>, k)
    /\ UNCHANGED <<mode, title, pickerOpen, selectedGif, selectedSticker,
                   uploadFileName, uploadFileSize, uploads, submits, body>>
    /\ ComposerFrame

\* the completion timeout of upload k, 1000 ms after it saw 100%
TimeoutFire(k) ==
    /\ k \in timeouts
    /\ timeouts' = timeouts \ {k}
    /\ uploadProgress' = NoProgress
    /\ uploadFileName' = 0
    /\ uploadFileSize' = 0
    /\ last' = Call("timeout", <<>>, k)
    /\ UNCHANGED <<mode, title, pickerOpen, selectedGif, selectedSticker,
                   intervals, uploads, submits, body>>
    /\ ComposerFrame

\* the cancel button of the progress indicator
HandleCancelUpload ==
    /\ uploadProgress # NoProgress
    /\ uploadProgress' = NoProgress
    /\ uploadFileName' = 0
    /\ uploadFileSize' = 0
    /\ last' = Call("handleCancelUpload", <<>>, uploadFileName)
    /\ UNCHANGED <<mode, title, pickerOpen, selectedGif, selectedSticker,
                   intervals, timeouts, uploads, submits, body>>
    /\ ComposerFrame

hasContent ==
    \/ Len(Trim(body)) > 0
    \/ selectedGif # ""
    \/ selectedSticker # ""
    \/ uploadFileName # 0

isSubmitDisabled ==
    IF mode = "thread" THEN Trim(title) = <<>> \/ ~hasContent ELSE ~hasContent

\* handleSubmit returns before onSubmit
SubmitReturnsEarly ==
    IF mode = "thread" THEN Trim(title) = <<>> ELSE Trim(body) = <<>>

\* a click on the submit button, which is only possible while it is enabled:
\* handleSubmit
HandleSubmit ==
    /\ ~isSubmitDisabled
    /\ submits < MaxSubmits
    /\ IF SubmitReturnsEarly
       THEN UNCHANGED <<title, body, selectedGif, selectedSticker, submits>>
       ELSE /\ submits' = submits + 1
            /\ title' = IF mode = "thread" THEN <<>> ELSE title
            /\ body' = <<>>
            /\ selectedGif' = ""
            /\ selectedSticker' = ""
    /\ last' = Call("handleSubmit", body, 0)
    /\ UNCHANGED <<mode, pickerOpen, uploadProgress, uploadFileName,
                   uploadFileSize, intervals, timeouts, uploads>>
    /\ ComposerFrame

\* ------------------------------------------------------ OrbitalPhotoGallery
\* the useState initial values of the gallery
GalleryStart == lightboxOpen = FALSE /\ currentIndex = 0

GalleryFrame ==
    /\ UNCHANGED <<contents, selection, maxLength, body, characterCount, changes>>
    /\ UNCHANGED <<convVars, blotVars, composerVars>>

\* the tiles shown: all photos up to four, the first four of more
VisibleTiles == 0..((IF photos > 4 THEN 4 ELSE photos) - 1)

\* handleClick(index) of a tile
HandleClick(index) ==
    /\ ~lightboxOpen
    /\ currentIndex' = index
    /\ lightboxOpen' = TRUE
    /\ last' = Call("handleClick", <<>>, index)
    /\ UNCHANGED photos
    /\ GalleryFrame

\* handlePrevious without its guard
handlePreviousUnguarded(index) == index - 1

\* handlePrevious: the index onNavigate is left with
handlePrevious(index) == IF index > 0 THEN index - 1 ELSE index

\* handleNext
handleNext(index) == IF index < photos - 1 THEN index + 1 ELSE index

\* handleKeyDown of the open lightbox
HandleKeyDown(key) ==
    /\ lightboxOpen
    /\ IF key = "Escape"
       THEN lightboxOpen' = FALSE /\ UNCHANGED currentIndex
       ELSE IF key = "ArrowLeft"
       THEN currentIndex' = handlePrevious(currentIndex) /\ UNCHANGED lightboxOpen
       ELSE IF key = "ArrowRight"
       THEN currentIndex' = handleNext(currentIndex) /\ UNCHANGED lightboxOpen
       ELSE UNCHANGED <<currentIndex, lightboxOpen>>
    /\ last' = Call(key, <<>>, currentIndex)
    /\ UNCHANGED photos
    /\ GalleryFrame

\* the previous button, rendered when hasPrevious
ClickPrevious ==
    /\ lightboxOpen
    /\ currentIndex > 0
    /\ currentIndex' = handlePrevious(currentIndex)
    /\ last' = Call("previous", <<>>, currentIndex)
    /\ UNCHANGED <<photos, lightboxOpen>>
    /\ GalleryFrame

\* the next button, rendered when hasNext
ClickNext ==
    /\ lightboxOpen
    /\ currentIndex < photos - 1
    /\ currentIndex' = handleNext(currentIndex)
    /\ last' = Call("next", <<>>, currentIndex)
    /\ UNCHANGED <<photos, lightboxOpen>>
    /\ GalleryFrame

\* a click on the backdrop or on the close button: onClose
HandleCloseLightbox(target) ==
    /\ lightboxOpen
    /\ lightboxOpen' = FALSE
    /\ last' = Call(target, <<>>, currentIndex)
    /\ UNCHANGED <<photos, currentIndex>>
    /\ GalleryFrame

Keys == {"Escape", "ArrowLeft", "ArrowRight", "Enter"}

Init ==
    /\ EditorInit
    /\ input = MdInput(<<>>) /\ doc = <<>> /\ md = <<>> /\ steps = <<>>
    /\ BlotInit
    /\ mode = "reply" /\ ComposerStart
    /\ photos = 1 /\ GalleryStart

Next ==
    \/ \E i \in 0..(Len(contents) - 1) : Click(i)
    \/ Blur
    \/ \E c \in TypedChars : UserType(c)
    \/ UserDelete
    \/ \E t \in ApiTexts : InsertText(t)
    \/ \E g \in EmojiValues \cup {UnknownGlyph} : InsertEmoji(g)
    \/ \E k \in EmojiKeys : HandleSelectEmoji(k)

\* the editor and the composer around it
Spec == Init /\ [][Next]_vars

\* the converters alone
InitConv ==
    /\ ConvInit
    /\ contents = <<CharAtom(NL, NoAttrs)>> /\ selection = NoSelection
    /\ maxLength = 0 /\ body = <<>> /\ characterCount = 0 /\ changes = <<>>
    /\ last = NoCall
    /\ BlotInit
    /\ mode = "reply" /\ ComposerStart
    /\ photos = 1 /\ GalleryStart

NextConv == Emit \/ Parse

SpecConv == InitConv /\ [][NextConv]_vars

InitBlot ==
    /\ BlotInit
    /\ mode = "reply" /\ ComposerStart
    /\ photos = 1 /\ GalleryStart
    /\ input = MdInput(<<>>) /\ doc = <<>> /\ md = <<>> /\ steps = <<>>
    /\ contents = <<CharAtom(NL, NoAttrs)>> /\ selection = NoSelection
    /\ maxLength = 0 /\ body = <<>> /\ characterCount = 0 /\ changes = <<>>
    /\ last = NoCall

NextBlot ==
    \/ \E g \in EmojiValues \cup {UnknownGlyph}, s \in Sources : BlotCreate(g, s)
    \/ \E n \in StoredNodes : BlotLoad(n)
    \/ \E i \in DOMAIN nodes : BlotValue(i)

SpecBlot == InitBlot /\ [][NextBlot]_vars

\* the composer with its editor: the body starts empty and maxLength is given
InitComposer ==
    /\ mode \in {"thread", "reply"}
    /\ ComposerStart
    /\ contents = <<CharAtom(NL, NoAttrs)>> /\ selection = NoSelection
    /\ maxLength = SmallMaxLength
    /\ body = <<>> /\ characterCount = 0 /\ changes = <<>>
    /\ last = NoCall
    /\ input = MdInput(<<>>) /\ doc = <<>> /\ md = <<>> /\ steps = <<>>
    /\ BlotInit
    /\ photos = 1 /\ GalleryStart

NextComposer ==
    \/ \E i \in 0..(Len(contents) - 1) : Click(i)
    \/ UserType("a")
    \/ UserDelete
    \/ \E v \in TitleValues : HandleTitleChange(v)
    \/ \E b \in BOOLEAN : SetPickerOpen(b)
    \/ HandleSelectGif
    \/ HandleSelectSticker
    \/ HandleRemoveGif
    \/ HandleRemoveSticker
    \/ HandleFileSelect
    \/ \E k \in 1..MaxUploads : IntervalTick(k)
    \/ \E k \in 1..MaxUploads : TimeoutFire(k)
    \/ HandleCancelUpload
    \/ HandleSubmit

SpecComposer == InitComposer /\ [][NextComposer]_vars

InitGallery ==
    /\ photos \in 1..MaxPhotos
    /\ GalleryStart
    /\ contents = <<CharAtom(NL, NoAttrs)>> /\ selection = NoSelection
    /\ maxLength = 0 /\ body = <<>> /\ characterCount = 0 /\ changes = <<>>
    /\ last = NoCall
    /\ input = MdInput(<<>>) /\ doc = <<>> /\ md = <<>> /\ steps = <<>>
    /\ BlotInit
    /\ mode = "reply" /\ ComposerStart

NextGallery ==
    \/ \E i \in VisibleTiles : HandleClick(i)
    \/ \E key \in Keys : HandleKeyDown(key)
    \/ ClickPrevious
    \/ ClickNext
    \/ \E target \in {"backdrop", "close"} : HandleCloseLightbox(target)

SpecGallery == InitGallery /\ [][NextGallery]_vars

\* ------------------------------------------------------------------ claims
FromDoc == input.kind = "doc"
FromMd == input.kind = "md"
RoundTripped == FromDoc /\ steps = <<"emit", "parse">>

OnlyStrings(ops) == \A i \in DOMAIN ops : IsString(ops[i])
HasEmbed(ops) == \E i \in DOMAIN ops : ~IsString(ops[i])
AttrsWithin(ops, allowed) == \A i \in DOMAIN ops : ops[i].attributes \in allowed
HasAttr(ops, a) == \E i \in DOMAIN ops : IsString(ops[i]) /\ ops[i].attributes = a
NoStar(s) == \A i \in DOMAIN s : s[i] # "*"
OneLine(s) == s # <<>> /\ \A i \in DOMAIN s : (s[i] = NL) <=> (i = Len(s))

\* a line that markdownToDelta reads as a blockquote or a list item
HasBlockPrefix(line) ==
    \/ StartsWith(line, <<">", " ">>)
    \/ StartsWith(line, <<"-", " ">>)
    \/ OrderedMatch(line)

NoPrefixedLine(s) == \A i \in DOMAIN Split(s) : ~HasBlockPrefix(Split(s)[i])

\* the text ends with its final newline and has no other whitespace at
\* either end
NoEdgeWhitespace(s) == s = Trim(s) \o <<NL>>

\* C1 (as claimed): after emit and parse, a Document of plain text, newlines
\* and emoji embeds has the same embeds at the same positions and the same
\* text.  Stated for the simplest such documents: one line of letters and
\* embeds.
C1_EmojiRoundTrip ==
    (/\ RoundTripped
     /\ AttrsWithin(input.doc, {NoAttrs})
     /\ OneLine(PlainText(input.doc))
     /\ \A i \in DOMAIN PlainText(input.doc) :
            PlainText(input.doc)[i] \in {"a", NL})
    => setContents(doc) = setContents(input.doc)

\* C2 (as claimed): after emit and parse, a Document of Bold and plain text
\* runs has Bold on exactly the same text spans and the same text.
BoldAndPlain(ops) == OnlyStrings(ops) /\ AttrsWithin(ops, {NoAttrs, Bold})

C2_BoldRoundTrip ==
    (RoundTripped /\ BoldAndPlain(input.doc))
    => setContents(doc) = setContents(input.doc)

\* C2 (amended): the same, for Documents whose text holds no "*", has no line
\* starting with a block prefix and no whitespace at its edges.
C2_BoldRoundTripAmended ==
    (/\ RoundTripped
     /\ BoldAndPlain(input.doc)
     /\ NoStar(PlainText(input.doc))
     /\ NoPrefixedLine(PlainText(input.doc))
     /\ NoEdgeWhitespace(PlainText(input.doc)))
    => setContents(doc) = setContents(input.doc)

C2_Witness ==
    /\ RoundTripped
    /\ BoldAndPlain(input.doc)
    /\ NoStar(PlainText(input.doc))
    /\ NoPrefixedLine(PlainText(input.doc))
    /\ NoEdgeWhitespace(PlainText(input.doc))
    /\ Len(input.doc) >= 3
    /\ HasAttr(input.doc, Bold)
    /\ HasAttr(doc, Bold)
    /\ \E i \in DOMAIN doc : doc[i].attributes = NoAttrs /\ doc[i].insert # <<NL>>

\* the ordered list of n items "a", numbered from 1
RECURSIVE NumberedList(_)
NumberedList(n) ==
    IF n = 0 THEN <<>>
    ELSE NumberedList(n - 1)
         \o (IF n > 1 THEN <<NL>> ELSE <<>>)
         \o NumToStr(n) \o <<".", " ", "a">>

\* C3 (as claimed): parse then emit numbers the n items of an ordered list
\* 1, 2, ..., n; "5. foo\n6. bar\n" comes out as "1. foo\n2. bar".
C3_ListRenumbering ==
    (FromMd /\ steps = <<"parse", "emit">>)
    => /\ \A n \in 1..MaxItems :
            input.md \in OrderedLists(n) => md = NumberedList(n)
       /\ input.md = <<"5", ".", " ", "f", "o", "o", NL, "6", ".", " ", "b", "a", "r", NL>>
            => md = <<"1", ".", " ", "f", "o", "o", NL, "2", ".", " ", "b", "a", "r">>

\* C4: Documents of plain, Italic-only and Underline-only text runs
ItalicUnderlinePlain(ops) ==
    /\ OnlyStrings(ops)
    /\ \A i \in DOMAIN ops :
          ops[i].insert # <<NL>> =>
              [ops[i].attributes EXCEPT !.list = "", !.blockquote = FALSE]
                  \in {NoAttrs, Italic, Underline}
    /\ HasAttr(ops, Italic) \/ HasAttr(ops, Underline)

NoInlineAttrs(ops) ==
    \A i \in DOMAIN ops :
        ~ops[i].attributes.bold /\ ~ops[i].attributes.italic
        /\ ~ops[i].attributes.underline

\* every Italic or Underline run of d stands in the text of ops with its
\* literal markers
MarkersKept(d, ops) ==
    \A i \in DOMAIN d :
        /\ d[i].attributes = Italic =>
              Contains(PlainText(ops), <<"*">> \o d[i].insert \o <<"*">>)
        /\ d[i].attributes = Underline =>
              Contains(PlainText(ops),
                       <<"<", "u", ">">> \o d[i].insert \o <<"<", "/", "u", ">">>)

\* C4 (as claimed): after emit and parse an Italic-only or Underline-only
\* run carries no attribute and is plain text with its literal markers.
C4_ItalicUnderlineLost ==
    (RoundTripped /\ ItalicUnderlinePlain(input.doc))
    => NoInlineAttrs(doc) /\ MarkersKept(input.doc, doc)

\* C4 (amended): the same, for Documents whose text holds no "*".
C4_ItalicUnderlineLostAmended ==
    (/\ RoundTripped
     /\ ItalicUnderlinePlain(input.doc)
     /\ NoStar(PlainText(input.doc)))
    => NoInlineAttrs(doc) /\ MarkersKept(input.doc, doc)

C4_Witness ==
    /\ RoundTripped
    /\ ItalicUnderlinePlain(input.doc)
    /\ NoStar(PlainText(input.doc))
    /\ HasAttr(input.doc, Italic)
    /\ HasAttr(input.doc, Underline)
    /\ Contains(PlainText(doc), <<"*", "a", "*">>)
    /\ Contains(PlainText(doc), <<"<", "u", ">", "a", "<", "/", "u", ">">>)

HelloQuote == <<">", " ", "h", "e", "l", "l", "o", NL>>
Hello == <<"h", "e", "l", "l", "o">>

\* C5 (as claimed): parse("> hello\n") is exactly Text("hello") and one
\* newline tagged Blockquote.
C5_BlockquoteParse ==
    (FromMd /\ input.md = HelloQuote /\ steps = <<"parse">>)
    => doc = <<TextOp(Hello, NoAttrs), TextOp(<<NL>>, Blockquote)>>

\* C5 (amended): parse("> hello\n") is Text("hello"), a newline tagged
\* Blockquote, and the plain newline of the empty line after the last "\n".
C5_BlockquoteParseAmended ==
    (FromMd /\ input.md = HelloQuote /\ steps = <<"parse">>)
    => doc = <<TextOp(Hello, NoAttrs), TextOp(<<NL>>, Blockquote),
               TextOp(<<NL>>, NoAttrs)>>

C5_Witness ==
    /\ FromMd /\ input.md = HelloQuote /\ steps = <<"parse">>
    /\ Len(doc) = 3
    /\ doc[2].attributes.blockquote

\* a Document of one line: a plain text run and a Blockquote newline
QuoteLine(ops) ==
    /\ Len(ops) = 2
    /\ OnlyStrings(ops)
    /\ ops[1].attributes = NoAttrs
    /\ \A j \in DOMAIN ops[1].insert : ops[1].insert[j] # NL
    /\ ops[2] = TextOp(<<NL>>, Blockquote)

C7_EmbedGlyphEmitted ==
    (FromDoc /\ steps = <<"emit">>)
    => \A i \in DOMAIN input.doc :
          ~IsString(input.doc[i]) =>
              Contains(md, getEmojiVariantByKey(input.doc[i].embed))

\* C8 (as claimed): a known glyph of the markdown is parsed into an embed
\* with its key and stands in no text operation.
C8_GlyphParsedToEmbed ==
    (FromMd /\ steps = <<"parse">>)
    => \A k \in EmojiKeys :
          Contains(input.md, getEmojiVariantByKey(k)) =>
              /\ \E i \in DOMAIN doc : doc[i].embed = k
              /\ \A i \in DOMAIN doc :
                    ~Contains(doc[i].insert, getEmojiVariantByKey(k))

\* C9 (as claimed): insertEmoji(glyph) with a known glyph inserts exactly one
\* embed at the cursor index, or before the final newline when there is no
\* selection, and leaves the cursor at index + 1, whatever the length of the
\* glyph.
C9_AtomicCursorAdvance ==
    [][(last'.op = "insertEmoji" /\ isEmojiVariantValue(last'.arg)) =>
        LET index == InsertIndex(selection, contents)
        IN  /\ contents' =
                  InsertAt(contents, index,
                           <<EmbedAtom(getEmojiVariantKeyByValue(last'.arg))>>)
            /\ selection' = index + 1]_vars

\* C10 (as claimed): an emoji picked in the composer enters the document as
\* one embed and the cursor advances by exactly one position.
C10_PickedEmojiIsEmbed ==
    [][last'.op = "handleSelectEmoji" =>
        LET index == InsertIndex(selection, contents)
        IN  /\ contents' =
                  InsertAt(contents, index,
                           <<EmbedAtom(getEmojiVariantKeyByValue(last'.arg))>>)
            /\ selection' = index + 1]_vars

\* C15 (as claimed): EmojiBlot.value on a node with data-emoji-key returns
\* the registry glyph of that key and ignores a stored glyph; on a node
\* with only data-emoji it returns that glyph and the node then carries the
\* key re-derived from the glyph.
C15_ValuePrefersKeyAndRederives ==
    [][result'.op = "value" =>
        LET n == result'.arg
        IN  /\ n.emojiKey # "" =>
                  result'.ok /\ result'.value = getEmojiVariantByKey(n.emojiKey)
            /\ (n.emojiKey = "" /\ isEmojiVariantValue(n.emoji)) =>
                  /\ result'.ok /\ result'.value = n.emoji
                  /\ nodes'[result'.index].emojiKey =
                        getEmojiVariantKeyByValue(n.emoji)]_vars

\* a node as EmojiBlot.create makes it for the glyph v
CreatedFrom(n, v) == \E s \in Sources : <<n>> = EmojiBlotNode(v, s)

C17_CreateRejectsUnknown ==
    [][(result'.op = "create" /\ ~isEmojiVariantValue(result'.arg)) =>
          /\ ~result'.ok
          /\ result'.error = "Value is not a known emoji"
          /\ nodes' = nodes
          /\ \A i \in DOMAIN nodes' : nodes'[i].emojiKey \in EmojiKeys \cup {""}]_vars

C17_Witness ==
    /\ result.op = "create"
    /\ result.arg = UnknownGlyph
    /\ ~result.ok
    /\ Len(nodes) = 1

\* C11: insertText(text) without a selection inserts the text before the
\* final newline, with a selection at the selection index; either way the
\* text is in the document and the cursor is at index + text.length.
C11_InsertTextFallback ==
    [][last'.op \in {"insertText", "handleSelectEmoji"} =>
        LET text == last'.arg
            index == IF selection = NoSelection THEN Len(contents) - 1
                     ELSE selection
        IN  /\ Len(contents') = Len(contents) + Len(text)
            /\ \A j \in 1..index : contents'[j] = contents[j]
            /\ \A j \in 1..Len(text) :
                  contents'[index + j].embed = "" /\ contents'[index + j].ch = text[j]
            /\ \A j \in (index + 1)..Len(contents) :
                  contents'[j + Len(text)] = contents[j]
            /\ selection' = index + Len(text)]_vars

C11_Witness ==
    /\ last.op = "insertText"
    /\ ~last.selected
    /\ last.index = 1
    /\ Len(contents) = 4
    /\ contents[2].ch = "a" /\ contents[3].ch = "a"
    /\ selection = 3

\* the document a 'user' operation asks for, before the length handler runs
Edited ==
    IF last'.op = "type"
    THEN InsertAt(contents, last'.index, <<CharAtom(last'.arg[1], NoAttrs)>>)
    ELSE IF last'.op = "delete"
    THEN RemoveAt(contents, last'.index)
    ELSE InsertAt(contents, last'.index,
                  <<EmbedAtom(getEmojiVariantKeyByValue(last'.arg))>>)

UserEdit ==
    \/ last'.op \in {"type", "delete"}
    \/ last'.op = "insertEmoji" /\ isEmojiVariantValue(last'.arg)

\* C12: with maxLength set, a user edit that would leave the trimmed text
\* longer than maxLength leaves the whole Document as it was before the edit.
C12_TransactionalRevert ==
    [][(/\ maxLength # 0
        /\ UserEdit
        /\ Len(Trim(getText(Edited))) > maxLength)
       => contents' = contents]_vars

C12_Witness ==
    /\ maxLength # 0
    /\ last.op = "type"
    /\ Len(changes) = 2
    /\ Len(Trim(getText(contents))) = maxLength

\* C13 (as claimed): with maxLength set and an initial Document within the
\* limit, the trimmed text of the Document is never longer than maxLength.
C13_LengthNeverExceeds ==
    maxLength # 0 => Len(Trim(getText(contents))) <= maxLength

\* C14: after every committed edit onChange has been called, and the
\* markdown it was last given is the emit of the current Document.
C14_ChangeNotification ==
    [][(UserEdit \/ last'.op \in {"insertText", "handleSelectEmoji"}) =>
          /\ changes' # <<>>
          /\ changes'[Len(changes')] = deltaToMarkdown(getContents(contents'))
          /\ body' = deltaToMarkdown(getContents(contents'))]_vars

C14_Witness ==
    /\ last.op = "type"
    /\ Len(changes) = 2
    /\ changes[1] # changes[2]
    /\ body = changes[2]
    /\ body = deltaToMarkdown(getContents(contents))

\* a markdown none of whose lines has a block prefix or a closed "**...**"
Unmarked(s) ==
    \A i \in DOMAIN Split(s) :
        ~HasBlockPrefix(Split(s)[i]) /\ NextBold(Split(s)[i], 1) = 0

HasNewline(s) == \E j \in DOMAIN s : s[j] = NL

\* C18: markdownToDelta gives a Document for every markdown string, and a
\* markdown whose markup is unmatched or partial (no block prefix, no closed
\* "**...**") comes back character for character as plain text.
C18_LenientParser ==
    (FromMd /\ steps = <<"parse">>)
    => /\ doc # <<>>
       /\ OnlyStrings(doc)
       /\ doc[Len(doc)].insert[Len(doc[Len(doc)].insert)] = NL
       /\ Unmarked(input.md) =>
             /\ PlainText(doc) = input.md \o <<NL>>
             /\ AttrsWithin(doc, {NoAttrs})

C18_Witness ==
    /\ FromMd /\ steps = <<"parse">>
    /\ input.md = <<"*", "*", "a">>
    /\ doc = <<TextOp(<<"*", "*", "a", NL>>, NoAttrs)>>

\* what emit gives when it fails with MalformedDocument
MalformedDocument == <<"MalformedDocument">>

\* a text operation that is no newline operation and holds a newline
EmbeddedNewline(op) ==
    IsString(op) /\ op.insert # <<NL>> /\ HasNewline(op.insert)

\* C19 (as claimed): emit of a Document with a text operation that holds an
\* embedded newline fails with MalformedDocument and returns no markdown.
C19_MalformedDocumentRejected ==
    (/\ FromDoc /\ steps = <<"emit">>
     /\ \E i \in DOMAIN input.doc : EmbeddedNewline(input.doc[i]))
    => md = MalformedDocument

\* C20 (as claimed): in every Document that parse produces, an operation
\* that holds a newline is exactly "\n".
C20_ParseKeepsNewlinesApart ==
    (FromMd /\ steps = <<"parse">>)
    => \A i \in DOMAIN doc : ~EmbeddedNewline(doc[i])

\* the markdown "**a**" after a block prefix
BoldAfter(prefix) == prefix \o <<"*", "*", "a", "*", "*">>

\* C21 (as claimed): the remainder of a blockquote, ordered or bullet line
\* is inline-parsed: "**a**" after the prefix becomes the Bold text "a".
C21_BlockLineInlineParsed ==
    (FromMd /\ steps = <<"parse">>)
    => /\ input.md = BoldAfter(<<">", " ">>) =>
             doc = <<TextOp(<<"a">>, Bold), TextOp(<<NL>>, Blockquote)>>
       /\ input.md = BoldAfter(<<"1", ".", " ">>) =>
             doc = <<TextOp(<<"a">>, Bold), TextOp(<<NL>>, Ordered)>>
       /\ input.md = BoldAfter(<<"-", " ">>) =>
             doc = <<TextOp(<<"a">>, Bold), TextOp(<<NL>>, Bullet)>>

\* a text with Bold outermost, then Italic, then Underline innermost
NestedBoldOutermost(text, a) ==
    LET t1 == IF a.underline
              THEN <<"<", "u", ">">> \o text \o <<"<", "/", "u", ">">> ELSE text
        t2 == IF a.italic THEN <<"*">> \o t1 \o <<"*">> ELSE t1
    IN  IF a.bold THEN <<"*", "*">> \o t2 \o <<"*", "*">> ELSE t2

\* a Document of one attributed run of letters and a plain newline
OneRun(ops) ==
    /\ Len(ops) = 2
    /\ OnlyStrings(ops)
    /\ ops[2] = TextOp(<<NL>>, NoAttrs)
    /\ \A j \in DOMAIN ops[1].insert : ops[1].insert[j] = "a"

\* C22 (as claimed): emit wraps a run with Bold outermost, then Italic,
\* then Underline innermost.
C22_NestingOrder ==
    (FromDoc /\ steps = <<"emit">> /\ OneRun(input.doc))
    => md = NestedBoldOutermost(input.doc[1].insert, input.doc[1].attributes)

\* a Document of one line of runs of letters whose newline carries a block
\* attribute
BlockLine(ops) ==
    /\ Len(ops) >= 2
    /\ OnlyStrings(ops)
    /\ ops[Len(ops)].insert = <<NL>>
    /\ ops[Len(ops)].attributes # NoAttrs
    /\ \A i \in 1..(Len(ops) - 1) :
          \A j \in DOMAIN ops[i].insert : ops[i].insert[j] = "a"

\* C23 (as claimed): the prefix of a line with a block attribute stands at
\* the very start of the line and nowhere else, also when the line has
\* several runs.
C23_PrefixAtLineStart ==
    (FromDoc /\ steps = <<"emit">> /\ BlockLine(input.doc))
    => LET prefix == LinePrefix(input.doc[Len(input.doc)].attributes, 1)
       IN  /\ StartsWith(md, prefix)
           /\ ~Contains(Substring(md, Len(prefix)), prefix)

\* C24 (as claimed): emit after parse is a normalisation: a second parse and
\* emit leaves the markdown as the first left it.
C24_EmitParseIdempotent ==
    [][(FromMd /\ steps' = <<"parse", "emit", "parse", "emit">>) => md' = md]_vars

NewlinesIn(s) == Cardinality({j \in DOMAIN s : s[j] = NL})

NewlineOps(ops) == Cardinality({i \in DOMAIN ops : ops[i].insert = <<NL>>})

\* C30 (as claimed): parse(m) has one newline operation per line of m, its
\* last operation is a newline, and a newline operation carries at most
\* one block attribute.
C30_OneNewlinePerLine ==
    (FromMd /\ steps = <<"parse">>)
    => /\ NewlineOps(doc) = NewlinesIn(input.md) + 1
       /\ doc[Len(doc)].insert = <<NL>>
       /\ \A i \in DOMAIN doc :
             ~(doc[i].attributes.blockquote /\ doc[i].attributes.list # "")

\* C25 (as claimed): with maxLength set, a user edit that leaves the trimmed
\* text longer than maxLength is reverted before the host is notified:
\* onChange is only given the markdown of the Document left by the revert.
C25_NoOverLimitNotification ==
    [][(/\ maxLength # 0
        /\ UserEdit
        /\ Len(Trim(getText(Edited))) > maxLength)
       => \A k \in DOMAIN changes' :
              changes'[k] = deltaToMarkdown(getContents(contents'))]_vars

\* C26 (as claimed): the composer's body is always the emit of the editor's
\* Document, and after a successful submit the body and the Document are
\* both empty.
C26_BodyMirrorsEditor ==
    [][/\ body' = deltaToMarkdown(getContents(contents'))
       /\ submits' > submits =>
             body' = <<>> /\ contents' = <<CharAtom(NL, NoAttrs)>>]_vars

\* C27 (as claimed): a click on the enabled submit button calls onSubmit
\* once and clears the submitted fields and the attachments.
C27_EnabledSubmitSubmits ==
    [][last'.op = "handleSubmit" =>
          /\ submits' = submits + 1
          /\ title' = <<>> /\ body' = <<>>
          /\ selectedGif' = "" /\ selectedSticker' = ""]_vars

\* C28 (as claimed): the interval and the timeout of an upload only change
\* the progress, name and size of their own file, and no interval of a
\* cancelled upload stays live.
C28_UploadTimersIsolated ==
    [][/\ (last'.op = "interval" /\ last'.index # uploadFileName) =>
             uploadProgress' = uploadProgress
       /\ (last'.op = "timeout" /\ last'.index # uploadFileName) =>
             UNCHANGED <<uploadProgress, uploadFileName, uploadFileSize>>
       /\ last'.op = "handleCancelUpload" => last'.index \notin intervals']_vars

Navigation == {"ArrowLeft", "ArrowRight", "previous", "next"}

\* C29: currentIndex stays within 0..photos.length-1; 'previous' at index 0
\* and 'next' at the last index leave it unchanged; navigation never closes
\* the lightbox and Escape always does.
C29_LightboxIndexInRange ==
    [][/\ currentIndex' \in 0..(photos' - 1)
       /\ (last'.op \in {"ArrowLeft", "previous"} /\ currentIndex = 0) =>
             currentIndex' = 0
       /\ (last'.op \in {"ArrowRight", "next"} /\ currentIndex = photos - 1) =>
             currentIndex' = photos - 1
       /\ last'.op \in Navigation => lightboxOpen' = lightboxOpen
       /\ last'.op = "Escape" => ~lightboxOpen']_vars

C29_Witness ==
    /\ photos = MaxPhotos
    /\ lightboxOpen
    /\ last.op = "ArrowRight"
    /\ last.index = photos - 1
    /\ currentIndex = photos - 1

====
